---- MODULE Spec2Model ----
(***************************************************************************)
(* A model of the hierarchical allocation tree of                          *)
(* hsuan744172/investment-portfolio: src/models/node.py (class Node) and   *)
(* src/ui/diagram.py (create_sankey_chart).                                *)
(*                                                                         *)
(* The heap maps the identities of the live Node objects to their fields;  *)
(* an object no longer reached from the root is collected.  An object is   *)
(* identified by where it was constructed: its creator's identity followed *)
(* by the key it was stored under.                                         *)
(* TLA+ string literals are ASCII only, so the Chinese literals of the     *)
(* source are written by their English gloss:                              *)
(*   "投資組合" -> "Portfolio"   "現金" -> "Cash"     "股票" -> "Stock"    *)
(*   "基金" -> "Fund"           "加密貨幣" -> "Crypto" "其他" -> "Other"   *)
(* A name is a sequence of symbols, each either the whitespace symbol WS   *)
(* or a non-whitespace word, so that str.strip() is modelled by what it    *)
(* does.  Percentages are exact rationals <<numerator, denominator>>.      *)
(***************************************************************************)
EXTENDS Integers, Sequences, FiniteSets, TLC

VARIABLES heap, hierarchy, ret

vars == <<heap, hierarchy, ret>>

\* ---------------------------------------------------------------- bounds

\* The number of Node objects alive at one time (the root included).
MaxNodes == 3

\* The same, in the runs that pin children: room for three siblings.
MaxPinnedNodes == 4

\* ------------------------------------------------------------- constants

None == "None"

\* The absent Node reference (Optional[Node] = None).
NoNode == << >>

WS == " "

ROOT_NAME == <<"Portfolio">>

OTHER_NAME == <<"Other">>

\* The three error messages of add_child.
MsgEmptyOrDuplicate == "empty or duplicate name"

MsgCannotAddChildren == "cannot add children"

MsgUnsupportedType == "unsupported node kind"

\* Arguments the caller passes as a child name: a root category, the
\* reserved root name, a free-text symbol, and empty / whitespace-only /
\* whitespace-padded forms.
RawNames ==
    { <<>>, <<WS>>, <<"ETF">>, <<WS, "ETF", WS>>, <<"Portfolio">>, <<"VTI">> }

\* The names passed in the runs that pin children: two categories and two
\* symbols.
PinnedNames == { <<"ETF">>, <<"VTI">>, <<"BND">>, <<"Cash">> }

\* Arguments the caller passes as parent_weight; 100 is the default.
DefaultWeight == 100

Weights == {DefaultWeight, 40}

\* Percentages the application pins a child at.
PinValues == {70}

\* ------------------------------------------------------------- rationals

RECURSIVE Gcd(_, _)
Gcd(a, b) == IF b = 0 THEN a ELSE Gcd(b, a % b)

Abs(a) == IF a < 0 THEN -a ELSE a

\* The rational n/d (d # 0) in lowest terms with a positive denominator.
Rat(n, d) ==
    LET g == Gcd(Abs(n), Abs(d))
        s == IF d < 0 THEN -1 ELSE 1
    IN  <<(s * n) \div g, (s * d) \div g>>

RInt(n) == <<n, 1>>

RAdd(p, q) == Rat(p[1] * q[2] + q[1] * p[2], p[2] * q[2])

RSub(p, q) == Rat(p[1] * q[2] - q[1] * p[2], p[2] * q[2])

RMul(p, q) == Rat(p[1] * q[1], p[2] * q[2])

RDivInt(p, k) == Rat(p[1], p[2] * k)

RECURSIVE RSum(_, _)
\* The sum of f[k] over the keys k in S.
RSum(f, S) ==
    IF S = {} THEN RInt(0)
    ELSE LET k == CHOOSE x \in S : TRUE
         IN  RAdd(f[k], RSum(f, S \ {k}))

\* ------------------------------------------------------------------ dict

\* A Python dict keeps insertion order: a sequence of [key, value] entries
\* with distinct keys.
Keys(d) == {d[i].key : i \in DOMAIN d}

Values(d) == [i \in DOMAIN d |-> d[i].value]

DictGet(d, k) == d[CHOOSE i \in DOMAIN d : d[i].key = k].value

\* d[k] = v: overwrites in place when k is a key, appends otherwise.
DictSet(d, k, v) ==
    IF k \in Keys(d)
    THEN [i \in DOMAIN d |-> IF d[i].key = k THEN [key |-> k, value |-> v] ELSE d[i]]
    ELSE Append(d, [key |-> k, value |-> v])

\* del d[k]
DictDel(d, k) == SelectSeq(d, LAMBDA e : e.key # k)

\* A mapping without order (AllocationGroup.allocations) is a function.
MapSet(f, k, v) == [x \in (DOMAIN f) \cup {k} |-> IF x = k THEN v ELSE f[x]]

MapDel(f, k) == [x \in (DOMAIN f) \ {k} |-> f[x]]

EmptyMap == [x \in {} |-> RInt(0)]

\* ---------------------------------------------------------------- strings

RECURSIVE LStrip(_)
LStrip(s) == IF s # <<>> /\ Head(s) = WS THEN LStrip(Tail(s)) ELSE s

RECURSIVE RStrip(_)
RStrip(s) ==
    IF s # <<>> /\ s[Len(s)] = WS THEN RStrip(SubSeq(s, 1, Len(s) - 1)) ELSE s

\* str.strip(): leading and trailing whitespace removed, the rest kept.
Strip(s) == RStrip(LStrip(s))

\* ------------------------------------------------------------ node kinds

\* models/enums.py, NodeType (not among the inspected sources): the closed
\* set of node kinds; a kind named X_SYMBOL is a "symbol"-style leaf kind.
NodeType ==
    { "ROOT", "CASH", "ETF", "STOCK", "FUND", "CRYPTO", "OTHER",
      "ETF_SYMBOL", "STOCK_SYMBOL", "FUND_SYMBOL", "CRYPTO_SYMBOL" }

SymbolTypes == {"ETF_SYMBOL", "STOCK_SYMBOL", "FUND_SYMBOL", "CRYPTO_SYMBOL"}

\* NodeType.name.endswith("_SYMBOL")
IsSymbolTypeName(t) == t \in SymbolTypes

\* NodeType.get_symbol_type: the symbol kind of an instrument container,
\* None for every other kind.
get_symbol_type(t) ==
    CASE t = "ETF" -> "ETF_SYMBOL"
      [] t = "STOCK" -> "STOCK_SYMBOL"
      [] t = "FUND" -> "FUND_SYMBOL"
      [] t = "CRYPTO" -> "CRYPTO_SYMBOL"
      [] OTHER -> None

\* ------------------------------------------------------- hierarchy policy

\* models/hierarchy.py, hierarchy_manager (not among the inspected sources):
\* a static table kind -> (can have children, valid child kinds).  Its
\* content is not known, so the model ranges over the tables below; the
\* root is a container in each.
FullValid(t) ==
    CASE t = "ROOT" -> {"CASH", "ETF", "STOCK", "FUND", "CRYPTO", "OTHER"}
      [] t = "ETF" -> {"ETF_SYMBOL"}
      [] t = "STOCK" -> {"STOCK_SYMBOL"}
      [] t = "FUND" -> {"FUND_SYMBOL"}
      [] t = "CRYPTO" -> {"CRYPTO_SYMBOL"}
      [] OTHER -> {}

\* A narrower table: free text is not accepted at the root, an ETF category
\* holds symbols and generic nodes, a generic node holds generic nodes, and
\* an ETF symbol is a container with no valid child kind.
NarrowValid(t) ==
    CASE t = "ROOT" -> {"CASH", "ETF", "STOCK"}
      [] t = "ETF" -> {"ETF_SYMBOL", "OTHER"}
      [] t = "STOCK" -> {"STOCK_SYMBOL"}
      [] t = "OTHER" -> {"OTHER"}
      [] OTHER -> {}

Hierarchies == {"full", "narrow"}

\* hierarchy_manager.get_valid_child_types(kind) under the table in force.
hierarchy_valid_child_types(t) ==
    IF hierarchy = "full" THEN FullValid(t) ELSE NarrowValid(t)

\* hierarchy_manager.can_have_children(kind) under the table in force.
hierarchy_can_have_children(t) ==
    IF hierarchy = "full" THEN FullValid(t) # {}
    ELSE NarrowValid(t) # {} \/ t = "ETF_SYMBOL"

\* ---------------------------------------------------------- asset catalog

\* models/providers.py, asset_registry (not among the inspected sources).
\* get_symbol_names(kind): the known symbol names of a container kind.
get_symbol_names(t) ==
    CASE t = "ETF" -> << <<"VTI">>, <<"BND">> >>
      [] t = "STOCK" -> << <<"AAPL">> >>
      [] OTHER -> << >>

\* get_available_names(kinds): the known names across the given kinds.
get_available_names(types) ==
    (IF "ETF_SYMBOL" \in types THEN << <<"VTI">>, <<"BND">> >> ELSE << >>)
    \o (IF "STOCK_SYMBOL" \in types THEN << <<"AAPL">> >> ELSE << >>)

\* get_name_type(name, valid_types): an opaque oracle; every answer its
\* interface allows (one of the kinds it was given, or none).
get_name_type(name, valid_types) == valid_types \cup {None}

\* -------------------------------------------------------- AllocationGroup

\* models/allocation.py, AllocationGroup (not among the inspected sources):
\* AllocationGroup(): an empty ledger and no fixed items.
NewAllocationGroup == [allocations |-> EmptyMap, fixed_items |-> {}]

\* bool(group): the ledger is a plain object, which Python takes as true
\* (the specification describes the test as "constructed if absent", and
\* Node.__init__ always constructs one).
group_truthy(g) == TRUE

get_allocation(g, name, default) ==
    IF name \in DOMAIN g.allocations THEN g.allocations[name] ELSE default

update_allocation(g, name, value) ==
    [g EXCEPT !.allocations = MapSet(g.allocations, name, value)]

\* ------------------------------------------------------------------- Node

\* Node.__init__
NewNode(name, node_type) ==
    [ name |-> name,
      node_type |-> node_type,
      children |-> << >>,
      allocation_group |-> NewAllocationGroup,
      parent_node |-> NoNode ]

is_root(node) == node.name = ROOT_NAME

has_children(node) == node.children # << >>

\* Mutant: the containment policy is not consulted.
can_have_children_Always(node) == TRUE

can_have_children(node) == hierarchy_can_have_children(node.node_type)

get_valid_child_types(node) == hierarchy_valid_child_types(node.node_type)

\* The six top-level category names, in their defined order.
RootCategoryNames ==
    << <<"Cash">>, <<"ETF">>, <<"Stock">>, <<"Fund">>, <<"Crypto">>, <<"Other">> >>

get_available_child_names(node) ==
    IF ~can_have_children(node) THEN << >>
    ELSE IF is_root(node) THEN RootCategoryNames
    ELSE LET available_node_types == get_valid_child_types(node) IN
         IF available_node_types = {} THEN << >>
         ELSE IF Cardinality(available_node_types) = 1
                 /\ \A t \in available_node_types : IsSymbolTypeName(t)
              THEN get_symbol_names(node.node_type) \o <<OTHER_NAME>>
              ELSE get_available_names(available_node_types) \o <<OTHER_NAME>>

\* Mutant: the table is read without the generic default.
root_asset_types_NoDefault(child_name) ==
    CASE child_name = <<"Cash">> -> "CASH"
      [] child_name = <<"ETF">> -> "ETF"
      [] child_name = <<"Stock">> -> "STOCK"
      [] child_name = <<"Fund">> -> "FUND"
      [] child_name = <<"Crypto">> -> "CRYPTO"
      [] child_name = <<"Other">> -> "OTHER"
      [] OTHER -> None

\* root_asset_types.get(child_name, NodeType.OTHER)
root_asset_types(child_name) ==
    CASE child_name = <<"Cash">> -> "CASH"
      [] child_name = <<"ETF">> -> "ETF"
      [] child_name = <<"Stock">> -> "STOCK"
      [] child_name = <<"Fund">> -> "FUND"
      [] child_name = <<"Crypto">> -> "CRYPTO"
      [] child_name = <<"Other">> -> "OTHER"
      [] OTHER -> "OTHER"

SeqRange(s) == {s[i] : i \in DOMAIN s}

\* Mutant: at the root the table's kind is returned without asking whether
\* it is a valid child kind.
determine_child_type_Unchecked(node, child_name) ==
    LET valid_types == get_valid_child_types(node) IN
    IF valid_types = {} THEN {None}
    ELSE IF is_root(node) THEN {root_asset_types(child_name)}
    ELSE LET symbol_type == get_symbol_type(node.node_type) IN
         IF /\ symbol_type # None
            /\ symbol_type \in valid_types
            /\ \/ child_name = OTHER_NAME
               \/ child_name \notin SeqRange(get_symbol_names(node.node_type))
         THEN {symbol_type}
         ELSE get_name_type(child_name, valid_types)

\* The set of kinds determine_child_type may return (None: no kind); more
\* than one only where the answer is the catalog's.
determine_child_type(node, child_name) ==
    LET valid_types == get_valid_child_types(node) IN
    IF valid_types = {} THEN {None}
    ELSE IF is_root(node)
    THEN LET node_type == root_asset_types(child_name)
         IN  {IF node_type \in valid_types THEN node_type ELSE None}
    ELSE LET symbol_type == get_symbol_type(node.node_type) IN
         IF /\ symbol_type # None
            /\ symbol_type \in valid_types
            /\ \/ child_name = OTHER_NAME
               \/ child_name \notin SeqRange(get_symbol_names(node.node_type))
         THEN {symbol_type}
         ELSE get_name_type(child_name, valid_types)

\* Mutant: the first child is given an equal share like any other, the
\* parent_weight ignored.
initialize_child_allocation_AlwaysShare(node, name, parent_weight) ==
    LET group == node.allocation_group
        unfixed_total ==
            RSub(RInt(100), RSum(group.allocations, group.fixed_items))
        unfixed_count == Len(node.children) - Cardinality(group.fixed_items)
    IN  IF unfixed_count > 0
        THEN update_allocation(group, name, RDivInt(unfixed_total, unfixed_count))
        ELSE update_allocation(group, name, RInt(0))

\* Mutant: every child is given parent_weight, the first or not.
initialize_child_allocation_UsesWeight(node, name, parent_weight) ==
    update_allocation(node.allocation_group, name, RInt(parent_weight))

\* Mutant: the unfixed children are counted without the new child.
initialize_child_allocation_CountsExisting(node, name, parent_weight) ==
    LET group == node.allocation_group
        unfixed_total ==
            RSub(RInt(100), RSum(group.allocations, group.fixed_items))
        unfixed_count ==
            (Len(node.children) - 1) - Cardinality(group.fixed_items)
    IN  IF Len(node.children) = 1
        THEN update_allocation(group, name, RInt(parent_weight))
        ELSE IF unfixed_count > 0
        THEN update_allocation(group, name, RDivInt(unfixed_total, unfixed_count))
        ELSE update_allocation(group, name, RInt(0))

\* Mutant: every unfixed child, old or new, is rewritten to the equal share.
initialize_child_allocation_Rebalance(node, name, parent_weight) ==
    LET group == node.allocation_group
        unfixed_total ==
            RSub(RInt(100), RSum(group.allocations, group.fixed_items))
        unfixed_count == Len(node.children) - Cardinality(group.fixed_items)
        share == IF unfixed_count > 0
                 THEN RDivInt(unfixed_total, unfixed_count)
                 ELSE RInt(0)
    IN  IF Len(node.children) = 1
        THEN update_allocation(group, name, RInt(parent_weight))
        ELSE [group EXCEPT !.allocations =
                 [k \in (DOMAIN group.allocations) \cup {name} |->
                     IF k \in group.fixed_items THEN group.allocations[k]
                     ELSE share]]

\* Node._initialize_child_allocation, on the node with the child already in
\* children: the node's allocation group afterwards.
initialize_child_allocation(node, name, parent_weight) ==
    LET group == IF ~group_truthy(node.allocation_group)
                 THEN NewAllocationGroup
                 ELSE node.allocation_group
    IN  IF Len(node.children) = 1
        THEN update_allocation(group, name, RInt(parent_weight))
        ELSE LET unfixed_total ==
                     RSub(RInt(100), RSum(group.allocations, group.fixed_items))
                 unfixed_count ==
                     Len(node.children) - Cardinality(group.fixed_items)
             IN  IF unfixed_count > 0
                 THEN update_allocation(group, name,
                                        RDivInt(unfixed_total, unfixed_count))
                 ELSE update_allocation(group, name, RInt(0))

\* Mutant: the removed name is left among the fixed items.
remove_child_allocation_KeepsFixed(group, name) ==
    [ allocations |-> MapDel(group.allocations, name),
      fixed_items |-> group.fixed_items ]

\* Mutant: the remaining entries are renormalised to equal shares of 100.
remove_child_allocation_Renormalize(group, name) ==
    LET rest == (DOMAIN group.allocations) \ {name} IN
    [ allocations |-> [k \in rest |-> RDivInt(RInt(100), Cardinality(rest))],
      fixed_items |-> group.fixed_items \ {name} ]

\* The bookkeeping of remove_child after "del self.children[name]": the
\* node's allocation group afterwards.
remove_child_allocation(group, name) ==
    IF group_truthy(group)
    THEN [ allocations |-> IF name \in DOMAIN group.allocations
                           THEN MapDel(group.allocations, name)
                           ELSE group.allocations,
           fixed_items |-> IF name \in group.fixed_items
                           THEN group.fixed_items \ {name}
                           ELSE group.fixed_items ]
    ELSE group

\* ------------------------------------------------------------------- tree

Root == <<ROOT_NAME>>

ChildIds(n) == {heap[n].children[i].value : i \in DOMAIN heap[n].children}

RECURSIVE ReachFrom(_, _)
ReachFrom(S, k) ==
    IF k = 0 THEN S
    ELSE ReachFrom(S \cup UNION {ChildIds(n) : n \in S}, k - 1)

\* The nodes of the tree: those reached from the root through children.
Tree == ReachFrom({Root}, MaxNodes)

\* The live objects; the heap is collected, so they are the tree's nodes.
Live == DOMAIN heap

\* Python frees an object once nothing refers to it: the heap h without the
\* nodes no longer reached from its root.
Collect(h) ==
    LET Children(S) ==
            UNION {{h[n].children[i].value : i \in DOMAIN h[n].children} : n \in S}
        RECURSIVE Reach(_)
        Reach(S) == IF Children(S) \subseteq S THEN S ELSE Reach(S \cup Children(S))
        live == Reach({Root})
    IN  IF live = DOMAIN h THEN h ELSE [n \in live |-> h[n]]

\* The separator of full_path, one symbol of the path string.
PATH_SEP == " -> "

\* Mutant: the parent's name is used where its full path is meant.
full_path_ParentNameOnly(self) ==
    IF heap[self].parent_node = NoNode
    THEN heap[self].name
    ELSE heap[heap[self].parent_node].name \o <<PATH_SEP>> \o heap[self].name

RECURSIVE full_path(_)
\* Node.full_path of the node self: the string built by walking the
\* parent links.
full_path(self) ==
    IF heap[self].parent_node = NoNode
    THEN heap[self].name
    ELSE full_path(heap[self].parent_node) \o <<PATH_SEP>> \o heap[self].name

\* The identity of the object constructed by self for the key cleaned_name.
FreshId(self, cleaned_name) == Append(self, cleaned_name)

\* ----------------------------------------------------------- Sankey chart

\* models/enums.py, get_color (not among the inspected sources): the colour
\* of a node kind.
get_color(node_type) == <<"color", node_type>>

\* SankeyChart.__init__
NewSankeyChart ==
    [ source_indices |-> << >>,
      target_indices |-> << >>,
      flow_values |-> << >>,
      node_labels |-> << >>,
      node_colors |-> << >> ]

\* reversed(list(...))
Reversed(s) == [i \in DOMAIN s |-> s[Len(s) + 1 - i]]

\* Mutant: the child's local percentage is taken as its weight.
child_weight_LocalOnly(current_weight, child_local_allocation) ==
    child_local_allocation

\* current_weight * child_local_allocation / 100.0
child_weight(current_weight, child_local_allocation) ==
    RDivInt(RMul(current_weight, child_local_allocation), 100)

\* An entry of node_stack: (node, parent index, cumulative weight).
StackEntry(node, parent_idx, weight) ==
    [node |-> node, parent_idx |-> parent_idx, weight |-> weight]

RECURSIVE sankey_loop(_, _)
\* The while loop of create_sankey_chart: the chart once node_stack is
\* empty.  Indices count from 0, as the lists of the source do.
sankey_loop(chart, node_stack) ==
    IF node_stack = << >> THEN chart
    ELSE LET top == node_stack[Len(node_stack)]
             rest == SubSeq(node_stack, 1, Len(node_stack) - 1)
             current == heap[top.node]
             current_idx == Len(chart.node_labels)
             labelled ==
                 [chart EXCEPT
                    !.node_labels = Append(@, current.name),
                    !.node_colors = Append(@, get_color(current.node_type))]
             linked ==
                 IF top.parent_idx # -1
                 THEN [labelled EXCEPT
                         !.flow_values = Append(@, top.weight),
                         !.source_indices = Append(@, top.parent_idx),
                         !.target_indices = Append(@, current_idx)]
                 ELSE labelled
             kids == Reversed(Values(current.children))
             pushed ==
                 [i \in DOMAIN kids |->
                    StackEntry(kids[i], current_idx,
                               child_weight(top.weight,
                                            get_allocation(current.allocation_group,
                                                           heap[kids[i]].name,
                                                           RInt(0))))]
         IN  sankey_loop(linked, rest \o pushed)

\* create_sankey_chart(node)
create_sankey_chart(node) ==
    sankey_loop(NewSankeyChart, <<StackEntry(node, -1, RInt(100))>>)

\* ------------------------------------------------------------- operations

\* Mutant: only the empty name is refused, a duplicate is let through.
name_rejected_EmptyOnly(node, cleaned_name) == cleaned_name = << >>

\* add_child, line 89: the cleaned name is refused.
name_rejected(node, cleaned_name) ==
    cleaned_name = << >> \/ cleaned_name \in Keys(node.children)

\* Mutant: the new child is constructed without its parent link.
new_child_Unlinked(self, cleaned_name, node_type) ==
    NewNode(cleaned_name, node_type)

\* The child add_child constructs (lines 96-97).
new_child(self, cleaned_name, node_type) ==
    [NewNode(cleaned_name, node_type) EXCEPT !.parent_node = self]

\* Mutant: the child is inserted and its allocation never initialised.
insert_child_NoAllocation(node, cleaned_name, new_id, parent_weight) ==
    [node EXCEPT !.children = DictSet(@, cleaned_name, new_id)]

\* add_child, lines 98-99: the receiver after the child with identity
\* new_id is inserted and its allocation initialised.
insert_child(node, cleaned_name, new_id, parent_weight) ==
    LET linked == [node EXCEPT !.children = DictSet(@, cleaned_name, new_id)]
    IN  [linked EXCEPT !.allocation_group =
             initialize_child_allocation(linked, cleaned_name, parent_weight)]

\* add_child, lines 88-95: what the call decides before it changes
\* anything: the kind of the child to construct, or the error to return
\* (several only where the catalog decides the kind).
add_child_decision(self, name) ==
    LET cleaned_name == Strip(name)
        node == heap[self]
        Decision(node_type, msg) == [node_type |-> node_type, msg |-> msg]
    IN  IF name_rejected(node, cleaned_name)
        THEN {Decision(None, MsgEmptyOrDuplicate)}
        ELSE IF ~can_have_children(node)
        THEN {Decision(None, MsgCannotAddChildren)}
        ELSE { IF node_type = None
               THEN Decision(None, MsgUnsupportedType)
               ELSE Decision(node_type, "")
               : node_type \in determine_child_type(node, cleaned_name) }

\* add_child, lines 96-99: the heap after the child of the decided kind is
\* constructed, linked and inserted (no reference is dropped, so no object
\* is freed).
add_child_heap(self, cleaned_name, node_type, parent_weight) ==
    LET new_id == FreshId(self, cleaned_name) IN
    [n \in DOMAIN heap \cup {new_id} |->
       IF n = new_id
       THEN new_child(self, cleaned_name, node_type)
       ELSE IF n = self
       THEN insert_child(heap[self], cleaned_name, new_id, parent_weight)
       ELSE heap[n]]

\* What a call of add_child leaves: the heap and the returned pair.
AddResult(h, node, msg) == [heap |-> h, node |-> node, msg |-> msg]

\* Node.add_child(name, parent_weight) on the node self: the outcomes the
\* call can have.
add_child(self, name, parent_weight) ==
    { IF d.msg # ""
      THEN AddResult(heap, NoNode, d.msg)
      ELSE AddResult(add_child_heap(self, Strip(name), d.node_type, parent_weight),
                     FreshId(self, Strip(name)), "")
      : d \in add_child_decision(self, name) }

\* Mutant: the child is deleted and its ledger entry left behind.
delete_child_KeepsAllocation(node, name) ==
    [node EXCEPT !.children = DictDel(@, name)]

\* Mutant: the bookkeeping is cleared and the child left among the children.
delete_child_KeepsChild(node, name) ==
    [node EXCEPT !.allocation_group = remove_child_allocation(@, name)]

\* remove_child, lines 124-129: the receiver after the child is removed.
delete_child(node, name) ==
    [node EXCEPT !.children = DictDel(@, name),
                 !.allocation_group = remove_child_allocation(@, name)]

\* What a call of remove_child leaves: the heap and the returned flag.
RemoveResult(h, ok) == [heap |-> h, ok |-> ok]

\* Node.remove_child(name) on the node self.
remove_child(self, name) ==
    LET node == heap[self] IN
    IF name \notin Keys(node.children)
    THEN RemoveResult(heap, FALSE)
    ELSE RemoveResult(Collect([heap EXCEPT ![self] = delete_child(node, name)]),
                      TRUE)

\* The application pins an existing child at a percentage: the group after.
pin_item(group, name, value) ==
    [update_allocation(group, name, RInt(value)) EXCEPT
         !.fixed_items = @ \cup {name}]

\* The application unpins a child: the group after.
unpin_item(group, name) == [group EXCEPT !.fixed_items = @ \ {name}]

\* ---------------------------------------------------------------- actions

\* The last call and the value it returned: (node, msg) for add_child, ok
\* for remove_child; freed holds the objects the call left without a
\* reference (none, but for a remove_child that detached a subtree).
Ret(op, node, msg, ok) ==
    [op |-> op, node |-> node, msg |-> msg, ok |-> ok, freed |-> {}]

\* add_child called while fewer than limit objects are alive.
AddChildWithin(limit, self, name, parent_weight) ==
    \E d \in add_child_decision(self, name) :
        IF d.msg # ""
        THEN /\ ret' = Ret("add_child", NoNode, d.msg, FALSE)
             /\ UNCHANGED <<heap, hierarchy>>
        ELSE /\ Cardinality(DOMAIN heap) < limit
             /\ heap' = add_child_heap(self, Strip(name), d.node_type, parent_weight)
             /\ ret' = Ret("add_child", FreshId(self, Strip(name)), "", TRUE)
             /\ UNCHANGED hierarchy

AddChild(self, name, parent_weight) ==
    AddChildWithin(MaxNodes, self, name, parent_weight)

RemoveChild(self, name) ==
    LET out == remove_child(self, name) IN
    /\ heap' = out.heap
    /\ ret' = [Ret("remove_child", NoNode, "", out.ok) EXCEPT
                   !.freed = DOMAIN heap \ DOMAIN out.heap]
    /\ UNCHANGED hierarchy

Pin(self, name, value) ==
    /\ name \in Keys(heap[self].children)
    /\ heap' = [heap EXCEPT ![self].allocation_group = pin_item(@, name, value)]
    /\ ret' = Ret("pin", NoNode, "", TRUE)
    /\ UNCHANGED hierarchy

Unpin(self, name) ==
    /\ name \in heap[self].allocation_group.fixed_items
    /\ heap' = [heap EXCEPT ![self].allocation_group = unpin_item(@, name)]
    /\ ret' = Ret("unpin", NoNode, "", TRUE)
    /\ UNCHANGED hierarchy

\* ---------------------------------------------------------- specification

\* The state after construction: a lone root node, under one of the
\* hierarchy tables.
Init ==
    /\ heap = [n \in {Root} |-> NewNode(ROOT_NAME, "ROOT")]
    /\ hierarchy \in Hierarchies
    /\ ret = Ret("init", NoNode, "", TRUE)

\* Names the caller passes to remove_child: raw, never stripped.
RemoveNames == RawNames

Next ==
    \/ \E self \in Live, name \in RawNames, w \in Weights : AddChild(self, name, w)
    \/ \E self \in Live, name \in RemoveNames : RemoveChild(self, name)
    \/ \E self \in Live, v \in PinValues :
          \E name \in Keys(heap[self].children) : Pin(self, name, v)
    \/ \E self \in Live :
          \E name \in heap[self].allocation_group.fixed_items : Unpin(self, name)

Spec == Init /\ [][Next]_vars

\* The same program driven by add_child with the default parent_weight and
\* remove_child alone.
NextAddRemove ==
    \/ \E self \in Live, name \in RawNames : AddChild(self, name, DefaultWeight)
    \/ \E self \in Live, name \in RemoveNames : RemoveChild(self, name)

SpecAddRemove == Init /\ [][NextAddRemove]_vars

\* The program driven at its top level by add_child with the default
\* parent_weight, remove_child, and the application pinning existing
\* children.
NextPinned ==
    \/ \E name \in PinnedNames :
          AddChildWithin(MaxPinnedNodes, Root, name, DefaultWeight)
    \/ \E name \in PinnedNames : RemoveChild(Root, name)
    \/ \E v \in PinValues :
          \E name \in Keys(heap[Root].children) : Pin(Root, name, v)

SpecPinned == Init /\ [][NextPinned]_vars

\* ----------------------------------------------------------------- claims

Allocations(n) == heap[n].allocation_group.allocations

FixedItems(n) == heap[n].allocation_group.fixed_items

ChildKeys(n) == Keys(heap[n].children)

\* C1: every node whose allocation group is non-empty has child percentages
\* that sum to exactly 100 (the claim as stated; the code breaks it).
C1_SumIs100 ==
    \A n \in Live :
        DOMAIN Allocations(n) # {} =>
            RSum(Allocations(n), DOMAIN Allocations(n)) = RInt(100)

\* C2: each node's fixedItems is a subset of the keys of its allocations,
\* and a child that add_child has just inserted is not fixed, whatever was
\* pinned and removed under that name before.
C2_FixedWithinAllocations ==
    /\ \A n \in Live : FixedItems(n) \subseteq DOMAIN Allocations(n)
    /\ \A self \in Live, name \in RawNames, w \in Weights :
         \A out \in add_child(self, name, w) :
            out.node # NoNode =>
                Strip(name) \notin out.heap[self].allocation_group.fixed_items

\* C2 witness: a removal has succeeded in a tree that holds a pinned child.
C2_Witness ==
    /\ ret.op = "remove_child" /\ ret.ok
    /\ \E n \in Live : FixedItems(n) # {}

\* C3: no two children of a node share a name, every child key is a trimmed
\* non-empty name that is the child's own name, and add_child with a name
\* whose trimmed form is empty or already a child key changes nothing and
\* returns the 'empty or duplicate name' error.
C3_UniqueNames ==
    /\ \A n \in Live :
         /\ \A i, j \in DOMAIN heap[n].children :
               i # j => heap[n].children[i].key # heap[n].children[j].key
         /\ \A i \in DOMAIN heap[n].children :
               LET e == heap[n].children[i] IN
               /\ e.key # << >> /\ Head(e.key) # WS /\ e.key[Len(e.key)] # WS
               /\ heap[e.value].name = e.key
    /\ \A self \in Live, name \in RawNames, w \in Weights :
         (Strip(name) = << >> \/ Strip(name) \in ChildKeys(self)) =>
            add_child(self, name, w) = {AddResult(heap, NoNode, MsgEmptyOrDuplicate)}

\* C3 witness: an add_child was refused as empty or duplicate at a moment
\* when a whitespace-padded spelling of an existing child's name is among
\* the names offered.
C3_Witness ==
    /\ ret.op = "add_child" /\ ~ret.ok /\ ret.msg = MsgEmptyOrDuplicate
    /\ \E self \in Live, name \in RawNames :
         name # Strip(name) /\ Strip(name) \in ChildKeys(self)

\* C4 as stated: on a node whose kind cannot have children, add_child fails
\* with 'cannot add children' for every name, empty names included.
C4_AlwaysCannotAdd ==
    \A self \in Live, name \in RawNames, w \in Weights :
        ~hierarchy_can_have_children(heap[self].node_type) =>
            \A out \in add_child(self, name, w) :
                out.node = NoNode /\ out.msg = MsgCannotAddChildren

\* C4 amended: on a node whose kind cannot have children, add_child always
\* fails and changes nothing: with 'cannot add children' when the trimmed
\* name is non-empty, with 'empty or duplicate name' when it is empty; such
\* a node never has a child.
C4_LeafNeverGrows ==
    \A self \in Live :
        ~hierarchy_can_have_children(heap[self].node_type) =>
            /\ heap[self].children = << >>
            /\ \A name \in RawNames, w \in Weights :
                 \A out \in add_child(self, name, w) :
                    /\ out.node = NoNode
                    /\ out.heap = heap
                    /\ out.msg = IF Strip(name) = << >>
                                 THEN MsgEmptyOrDuplicate
                                 ELSE MsgCannotAddChildren

\* C4 witness: add_child has just been refused with 'cannot add children'
\* and the tree holds a node whose kind cannot have children.
C4_Witness ==
    /\ ret.op = "add_child" /\ ~ret.ok /\ ret.msg = MsgCannotAddChildren
    /\ \E n \in Live : ~hierarchy_can_have_children(heap[n].node_type)

\* C5: every add_child call returns (new node, "") or (absent, one of the
\* three messages); on an error the heap is exactly as before; on success
\* the node is in children under the trimmed name, carries that name and
\* has its parent link set to the receiver.
C5_AddChildResult ==
    \A self \in Live, name \in RawNames, w \in Weights :
        \A out \in add_child(self, name, w) :
            \/ /\ out.node = NoNode
               /\ out.msg \in {MsgEmptyOrDuplicate, MsgCannotAddChildren,
                               MsgUnsupportedType}
               /\ out.heap = heap
            \/ /\ out.node # NoNode
               /\ out.msg = ""
               /\ out.node \in DOMAIN out.heap
               /\ Strip(name) \in Keys(out.heap[self].children)
               /\ DictGet(out.heap[self].children, Strip(name)) = out.node
               /\ out.heap[out.node].name = Strip(name)
               /\ out.heap[out.node].parent_node = self

\* C5 witness: add_child has just returned a node, which is linked to its
\* parent and stored among the parent's children.
C5_Witness ==
    /\ ret.op = "add_child" /\ ret.ok /\ ret.msg = ""
    /\ ret.node \in Live
    /\ heap[ret.node].parent_node \in Live
    /\ ret.node \in ChildIds(heap[ret.node].parent_node)

\* C6: a successful add_child(name, parentWeight) on a node that has no
\* children at the time of the call stores exactly parentWeight as the new
\* child's allocation.
C6_FirstChildWeight ==
    \A self \in Live, name \in RawNames, w \in Weights :
        heap[self].children = << >> =>
            \A out \in add_child(self, name, w) :
                out.node # NoNode =>
                    /\ Strip(name) \in DOMAIN out.heap[self].allocation_group.allocations
                    /\ out.heap[self].allocation_group.allocations[Strip(name)] = RInt(w)

\* C6 witness: add_child has just returned a node that is its parent's only
\* child and is allocated the non-default weight 40.
C6_Witness ==
    /\ ret.op = "add_child" /\ ret.ok
    /\ LET parent == heap[ret.node].parent_node IN
       /\ Len(heap[parent].children) = 1
       /\ Allocations(parent)[heap[ret.node].name] = RInt(40)

\* C7: remove_child of a child returns true and removes the name from
\* children, allocations and fixedItems; remove_child of a name that is not
\* a child returns false and changes nothing.
C7_RemovalBookkeeping ==
    \A self \in Live, name \in RemoveNames :
        LET out == remove_child(self, name) IN
        IF name \in ChildKeys(self)
        THEN /\ out.ok
             /\ name \notin Keys(out.heap[self].children)
             /\ name \notin DOMAIN out.heap[self].allocation_group.allocations
             /\ name \notin out.heap[self].allocation_group.fixed_items
        ELSE ~out.ok /\ out.heap = heap

\* C7 witness: remove_child has just returned true and left its node with
\* no child, no allocation and no fixed item.
C7_Witness ==
    /\ ret.op = "remove_child" /\ ret.ok
    /\ \E n \in Live :
         /\ heap[n].children = << >>
         /\ DOMAIN Allocations(n) = {}
         /\ FixedItems(n) = {}
         /\ hierarchy_can_have_children(heap[n].node_type)

\* C8: is_root is true of a node if and only if the node has no parent, and
\* exactly one node of the tree reports is_root (the claim as stated; the
\* code breaks it).
C8_RootIffNoParent ==
    /\ \A n \in Tree : is_root(heap[n]) <=> heap[n].parent_node = NoNode
    /\ Cardinality({n \in Tree : is_root(heap[n])}) = 1

\* The kind the claim's table gives a name at the root.
C9_TableKind(cleaned_name) ==
    IF cleaned_name = <<"Cash">> THEN "CASH"
    ELSE IF cleaned_name = <<"ETF">> THEN "ETF"
    ELSE IF cleaned_name = <<"Stock">> THEN "STOCK"
    ELSE IF cleaned_name = <<"Fund">> THEN "FUND"
    ELSE IF cleaned_name = <<"Crypto">> THEN "CRYPTO"
    ELSE "OTHER"

\* The names C9 ranges over: every name the caller passes and each of the
\* six category names.
C9_Names == RawNames \cup SeqRange(RootCategoryNames)

\* C9: at the root, add_child with a non-empty unused name creates a child
\* whose kind is the table entry of the trimmed name (the generic 'other'
\* kind for a name outside the table) when that kind is among the root's
\* valid child kinds, and fails with 'unsupported node kind' when it is not.
C9_RootCategoryMapping ==
    \A name \in C9_Names, w \in Weights :
        (Strip(name) # << >> /\ Strip(name) \notin ChildKeys(Root)) =>
            \A out \in add_child(Root, name, w) :
                IF C9_TableKind(Strip(name)) \in hierarchy_valid_child_types("ROOT")
                THEN /\ out.node # NoNode
                     /\ out.heap[out.node].node_type = C9_TableKind(Strip(name))
                ELSE out.node = NoNode /\ out.msg = MsgUnsupportedType

\* C9 witness: add_child at the root has just created the ETF category,
\* next to a child of the generic kind created from a free-text name.
C9_Witness ==
    /\ ret.op = "add_child" /\ ret.ok
    /\ heap[ret.node].parent_node = Root
    /\ heap[ret.node].name = <<"ETF">>
    /\ heap[ret.node].node_type = "ETF"
    /\ \E c \in ChildIds(Root) :
         heap[c].name = <<"VTI">> /\ heap[c].node_type = "OTHER"

\* C10: get_available_child_names of a node returns only names that are not
\* already keys of that node's children (the claim as stated; the code
\* breaks it).
C10_AvailableNamesUnused ==
    \A n \in Live :
        \A i \in DOMAIN get_available_child_names(heap[n]) :
            get_available_child_names(heap[n])[i] \notin ChildKeys(n)

\* C11: a successful add_child on a node that already has a child stores,
\* for the new child, (100 minus the sum of the fixed children's
\* allocations) divided by (the number of children after the insertion
\* minus the number of fixed children), whatever parent_weight is passed.
C11_EqualShareOfUnfixed ==
    \A self \in Live, name \in PinnedNames \cup RawNames, w \in Weights :
        heap[self].children # << >> =>
            \A out \in add_child(self, name, w) :
                out.node # NoNode =>
                    out.heap[self].allocation_group.allocations[Strip(name)]
                      = RDivInt(RSub(RInt(100),
                                     RSum(Allocations(self), FixedItems(self))),
                                (Len(heap[self].children) + 1)
                                  - Cardinality(FixedItems(self)))

\* C11 witness: add_child has just returned BND as the third child of a
\* node whose child VTI is pinned at 70 and whose other child is not fixed;
\* BND is allocated 15.
C11_Witness ==
    /\ ret.op = "add_child" /\ ret.ok
    /\ heap[ret.node].name = <<"BND">>
    /\ LET parent == heap[ret.node].parent_node IN
       /\ Len(heap[parent].children) = 3
       /\ FixedItems(parent) = {<<"VTI">>}
       /\ Allocations(parent)[<<"VTI">>] = RInt(70)
       /\ Allocations(parent)[<<"BND">>] = RInt(15)

RECURSIVE C12_PathNames(_, _)
\* The names met on the way down from the node from to the node target,
\* following children.
C12_PathNames(from, target) ==
    IF from = target THEN <<heap[from].name>>
    ELSE LET c == CHOOSE x \in ChildIds(from) : target \in ReachFrom({x}, MaxNodes)
         IN  <<heap[from].name>> \o C12_PathNames(c, target)

RECURSIVE C12_Join(_)
\* The names joined by the separator ' -> '.
C12_Join(names) ==
    IF Len(names) = 1 THEN names[1]
    ELSE C12_Join(SubSeq(names, 1, Len(names) - 1))
           \o <<" -> ">> \o names[Len(names)]

\* C12: for every node of the tree, full_path is the names on the path from
\* the root down to the node, root first, joined by ' -> '.
C12_FullPathIsRootPath ==
    \A n \in Tree : full_path(n) = C12_Join(C12_PathNames(Root, n))

\* C12 witness: add_child has just returned the end of a three-level chain,
\* whose full_path is 'Portfolio -> ETF -> VTI'.
C12_Witness ==
    /\ ret.op = "add_child" /\ ret.ok
    /\ heap[ret.node].parent_node # Root
    /\ full_path(ret.node) = <<"Portfolio", " -> ", "ETF", " -> ", "VTI">>

\* C13 as stated: a successful add_child on a node that has children, all
\* of them fixed, stores 0 for the new child.
C13_AllFixedGetsZero ==
    \A self \in Live, name \in PinnedNames, w \in Weights :
        (heap[self].children # << >> /\ ChildKeys(self) \subseteq FixedItems(self)) =>
            \A out \in add_child(self, name, w) :
                out.node # NoNode =>
                    out.heap[self].allocation_group.allocations[Strip(name)] = RInt(0)

\* C13 amended: a successful add_child on a node that has children, all of
\* them fixed, stores for the new child 100 minus the sum of the fixed
\* children's allocations: the new child is the one unfixed child.
C13_AllFixedGetsRemainder ==
    \A self \in Live, name \in PinnedNames, w \in Weights :
        (heap[self].children # << >> /\ ChildKeys(self) \subseteq FixedItems(self)) =>
            \A out \in add_child(self, name, w) :
                out.node # NoNode =>
                    out.heap[self].allocation_group.allocations[Strip(name)]
                      = RSub(RInt(100), RSum(Allocations(self), ChildKeys(self)))

\* C13 witness: add_child has just returned a second child whose only
\* sibling is pinned at 70; the new child is allocated 30.
C13_Witness ==
    /\ ret.op = "add_child" /\ ret.ok
    /\ LET parent == heap[ret.node].parent_node
           name == heap[ret.node].name
       IN  /\ Len(heap[parent].children) = 2
           /\ FixedItems(parent) = ChildKeys(parent) \ {name}
           /\ \A f \in FixedItems(parent) : Allocations(parent)[f] = RInt(70)
           /\ Allocations(parent)[name] = RInt(30)

\* C14: every stored allocation percentage lies in [0, 100], in every state
\* reached by add_child with the default parent_weight, remove_child and
\* pinning an existing child at a value in [0, 100] (the claim as stated;
\* the code breaks it).
C14_WithinRange ==
    \A n \in Live :
        \A k \in DOMAIN Allocations(n) :
            LET a == Allocations(n)[k] IN
            a[1] >= 0 /\ a[1] <= 100 * a[2]

\* C15: for every node, the keys of its allocations are exactly the keys of
\* its children: each child has one allocation entry and no entry exists
\* for a name that is not a child.
C15_AllocationKeysAreChildren ==
    \A n \in Live : DOMAIN Allocations(n) = ChildKeys(n)

\* C15 witness: remove_child has just removed one of two siblings, and the
\* node keeps one child and one allocation entry.
C15_Witness ==
    /\ ret.op = "remove_child" /\ ret.ok
    /\ \E n \in Live :
         /\ Len(heap[n].children) = 1
         /\ Cardinality(DOMAIN Allocations(n)) = 1
         /\ Cardinality(ret.freed) = 1
         /\ \A f \in ret.freed : SubSeq(f, 1, Len(f) - 1) = n

\* C16: a successful add_child changes, in the receiver's allocation group,
\* only the new child's entry: every sibling's stored percentage and the
\* fixed items are as before, and every other node is as before.
C16_AddChildFrame ==
    \A self \in Live, name \in RawNames, w \in Weights :
        \A out \in add_child(self, name, w) :
            out.node # NoNode =>
                LET after == out.heap[self].allocation_group IN
                /\ DOMAIN after.allocations = DOMAIN Allocations(self) \cup {Strip(name)}
                /\ \A k \in DOMAIN Allocations(self) :
                      after.allocations[k] = Allocations(self)[k]
                /\ after.fixed_items = FixedItems(self)
                /\ \A n \in Live \ {self} : out.heap[n] = heap[n]
                /\ DOMAIN out.heap = Live \cup {out.node}

\* C16 witness: add_child has just returned a second child, allocated 50,
\* whose sibling still holds the 40 it was created with.
C16_Witness ==
    /\ ret.op = "add_child" /\ ret.ok
    /\ LET parent == heap[ret.node].parent_node
           name == heap[ret.node].name
       IN  /\ Len(heap[parent].children) = 2
           /\ Allocations(parent)[name] = RInt(50)
           /\ \E k \in ChildKeys(parent) \ {name} : Allocations(parent)[k] = RInt(40)

RECURSIVE C18_ReachIn(_, _)
\* The nodes of the heap h reached from the nodes S through children.
C18_ReachIn(h, S) ==
    LET next ==
          S \cup UNION {{h[n].children[i].value : i \in DOMAIN h[n].children}
                          : n \in S \cap DOMAIN h}
    IN  IF next = S THEN S ELSE C18_ReachIn(h, next)

\* C18: after remove_child of a child C, no node of C's former subtree is
\* reached from the root; and an add_child that follows the removal and
\* constructs a node where a removed one was (the same name on the same
\* parent) yields a node with no children, no allocations and no fixed
\* items, whatever the removed subtree held.
C18_RemovedSubtreeGone ==
    /\ \A self \in Live, name \in RemoveNames :
          name \in ChildKeys(self) =>
              LET c == DictGet(heap[self].children, name)
                  out == remove_child(self, name)
              IN  C18_ReachIn(heap, {c}) \cap C18_ReachIn(out.heap, {Root}) = {}
    /\ (ret.op = "remove_child" /\ ret.ok) =>
          \A self \in Live, name \in RawNames, w \in Weights :
              \A out \in add_child(self, name, w) :
                  out.node \in ret.freed =>
                      /\ out.heap[out.node].children = << >>
                      /\ out.heap[out.node].allocation_group = NewAllocationGroup
                      /\ C18_ReachIn(out.heap, {Root}) \cap ret.freed = {out.node}

\* C18 witness: remove_child has just detached a child together with its
\* own child, and add_child of the same name on the same parent succeeds.
C18_Witness ==
    /\ ret.op = "remove_child" /\ ret.ok
    /\ Cardinality(ret.freed) = 2
    /\ \E self \in Live, name \in RawNames, w \in Weights :
          \E out \in add_child(self, name, w) : out.node \in ret.freed

RECURSIVE C19_Preorder(_)
\* The nodes below and including n, depth first, children in their order.
C19_Preorder(n) ==
    LET kids == Values(heap[n].children)
        RECURSIVE Concat(_)
        Concat(i) == IF i > Len(kids) THEN << >>
                     ELSE C19_Preorder(kids[i]) \o Concat(i + 1)
    IN  <<n>> \o Concat(1)

\* The index (from 0) at which the chart labels the node n.
C19_Index(n) ==
    (CHOOSE i \in DOMAIN C19_Preorder(Root) : C19_Preorder(Root)[i] = n) - 1

RECURSIVE C19_GlobalWeight(_)
\* 100 multiplied by (local percentage / 100) for every edge on the path
\* from the root to n, a missing allocation entry counting as 0.
C19_GlobalWeight(n) ==
    IF n = Root THEN RInt(100)
    ELSE LET parent == heap[n].parent_node
             local == IF heap[n].name \in DOMAIN Allocations(parent)
                      THEN Allocations(parent)[heap[n].name]
                      ELSE RInt(0)
         IN  RMul(C19_GlobalWeight(parent), RDivInt(local, 100))

\* C19: create_sankey_chart of the root emits one label per node of the
\* tree and one link per node other than the root; the link's target is the
\* node's index, its source the index of the node's parent, and its value
\* the node's global weight.
C19_SankeyChart ==
    LET chart == create_sankey_chart(Root)
        links == DOMAIN chart.flow_values
    IN  /\ Len(chart.node_labels) = Cardinality(Tree)
        /\ Len(chart.node_colors) = Cardinality(Tree)
        /\ \A n \in Tree : chart.node_labels[C19_Index(n) + 1] = heap[n].name
        /\ Len(chart.flow_values) = Cardinality(Tree) - 1
        /\ DOMAIN chart.source_indices = links
        /\ DOMAIN chart.target_indices = links
        /\ \A n \in Tree \ {Root} :
              /\ Cardinality({k \in links :
                                 chart.target_indices[k] = C19_Index(n)}) = 1
              /\ \A k \in links :
                    chart.target_indices[k] = C19_Index(n) =>
                        /\ chart.source_indices[k] = C19_Index(heap[n].parent_node)
                        /\ chart.flow_values[k] = C19_GlobalWeight(n)

\* C19 witness: the chart of a three-level chain, whose middle node holds 40
\* of the root and whose last node is pinned at 70 of the middle one: the
\* links carry 40 and 28.
C19_Witness ==
    LET chart == create_sankey_chart(Root) IN
    /\ chart.source_indices = <<0, 1>>
    /\ chart.target_indices = <<1, 2>>
    /\ chart.flow_values = <<RInt(40), RInt(28)>>

\* C20: with a catalog that answers only with a kind it was given or none,
\* every child's kind is among the valid child kinds of its parent's kind,
\* and no node whose kind cannot have children has a child.
C20_KindsFollowHierarchy ==
    \A n \in Tree :
        /\ \A c \in ChildIds(n) :
              heap[c].node_type \in hierarchy_valid_child_types(heap[n].node_type)
        /\ ~hierarchy_can_have_children(heap[n].node_type) => ChildIds(n) = {}

\* C20 witness: under the narrower table, add_child on the ETF category has
\* just returned a child whose kind the catalog resolved to the generic
\* kind, one of the two valid there.
C20_Witness ==
    /\ ret.op = "add_child" /\ ret.ok
    /\ hierarchy = "narrow"
    /\ heap[ret.node].node_type = "OTHER"
    /\ heap[heap[ret.node].parent_node].node_type = "ETF"

====
